---- MODULE Spec2Model ----
(***************************************************************************)
(* A model of mailcopy (src/mailcopy.go): copyMailbox, the batched         *)
(* fetch/append/mark/expunge loop over one source mailbox with its fetch   *)
(* producer goroutine, the mailbox set resolution of main, and the run of   *)
(* main: connecting the two sessions, the driver loop and the exits.       *)
(*                                                                         *)
(* The IMAP sessions are the environment.  The source mailbox is a         *)
(* sequence of messages in sequence-number order, each with its UID and    *)
(* its \Deleted flag; the destination mailbox is the bag of the UIDs       *)
(* appended to it.  Every session operation may succeed or fail.           *)
(***************************************************************************)
EXTENDS Integers, Sequences, FiniteSets

\* ---------------------------------------------------------------- bounds
\* The largest initial message count of the source mailbox.
MaxMsgs == 11
\* The most iterations of the batch loop of one run.
MaxCycles == 2

\* The most session operations that fail in one run.
MaxFailures == 1

\* ------------------------------------------------------ program constants
\* batch := uint32(10)
BatchLimit == 10
\* messages := make(chan *imap.Message, 10)
MessagesCap == 10
\* done := make(chan error, 1)
DoneCap == 1

VARIABLES
    src,            \* source mailbox on the server: Seq of [uid, deleted]
    dest,           \* destination mailbox: UID -> number of successful Appends
    count,          \* mbox.Messages, as read by the latest Select
    total,          \* total, the count read by the first Select
    bar,            \* bar.Current(), the progress count
    batch,          \* batch, the upper end of the fetched range 1:batch
    msgs,           \* msgs, the UIDs collected in this cycle
    messages,       \* buffer of the messages channel (UIDs)
    messagesClosed, \* whether Fetch has closed the messages channel
    done,           \* buffer of the done channel (errors)
    doneClosed,     \* whether the producer has closed the done channel
    fetchPos,       \* how many messages of the batch Fetch has delivered
    fetchErr,       \* the value Fetch returned to the producer goroutine
    ppc,            \* position of the producer goroutine
    pc,             \* position of copyMailbox
    retErr,         \* the error copyMailbox returns (Nil: none)
    cycles,         \* iterations of the batch loop started
    calls,          \* session operations issued so far, by name
    failed,         \* names of the session operations that failed
    nfail,          \* number of session operations that failed
    createRes,      \* what Create reported: "none" before it is called
    cycleOk,        \* UIDs whose Append succeeded in this cycle
    stored,         \* <<U>> once UidStore was issued with set U in this cycle
    counting,       \* whether cycles and calls are counted (history on)
    \* --- mailbox set resolution of main
    cfg,            \* cfg: [include, exclude: Seq of names, mapping: map]
    discovered,     \* the mailbox names the source account holds
    mailboxes,      \* mailboxes, the map source name -> destination name
    boxesToCopy,    \* boxesToCopy, the ordered source names
    mboxSrv,        \* buffer of the mboxSrv channel (names)
    mboxSrvClosed,  \* whether List has closed the mboxSrv channel
    listDone,       \* buffer of the done channel of the List goroutine
    listErr,        \* the value List returned
    listed,         \* the names List has delivered so far
    repeats,        \* how many names List has delivered a second time
    listCalls,      \* number of List commands issued on the source session
    lpc,            \* position of the List goroutine
    rpc,            \* position of main in the resolution
    run,            \* 1 in the first run of main, 2 in the second
    prevPlan,       \* the plan the first run resolved
    \* --- the run of main
    listOnly,       \* the -list flag
    mpc,            \* position of main; "exit0", "exit1": the process ended
    fromSess,       \* the source session: "none", "open" or "closed"
    toSess,         \* the destination session: "none", "open" or "closed"
    boxes,          \* the source account: mailbox name -> its messages
    idx,            \* index of the plan entry the driver loop is at
    touched,        \* plan entries for which a session operation was issued
    outcome         \* per plan entry: "none", "ok", "err" or "fatal"

cvars == <<src, dest, count, total, bar, batch, msgs, messages, messagesClosed,
           done, doneClosed, fetchPos, fetchErr, ppc, pc, retErr, cycles, calls,
           failed, nfail, createRes, cycleOk, stored, counting>>

\* cvars without the record of the failed operations.
lvars == <<src, dest, count, total, bar, batch, msgs, messages, messagesClosed,
           done, doneClosed, fetchPos, fetchErr, ppc, pc, retErr, cycles, calls,
           createRes, cycleOk, stored, counting>>

rvars == <<cfg, discovered, mailboxes, boxesToCopy, mboxSrv, mboxSrvClosed,
           listDone, listErr, listed, repeats, listCalls, lpc, rpc, run,
           prevPlan>>

mvars == <<listOnly, mpc, fromSess, toSess, boxes, idx, touched, outcome>>

vars == <<cvars, rvars, mvars>>

\* ---------------------------------------------------------------- helpers
Nil == "nil"

UIDs == 1..MaxMsgs

Ops == {"Select", "Create", "Fetch", "Append", "UidStore", "Expunge"}

Min(a, b) == IF a < b THEN a ELSE b

RECURSIVE SumOver(_, _)
SumOver(f, S) ==
    IF S = {} THEN 0
    ELSE LET x == CHOOSE y \in S : TRUE IN f[x] + SumOver(f, S \ {x})

\* The number of successful Appends of the run.
Appended == SumOver(dest, UIDs)

SeqRange(s) == {s[i] : i \in 1..Len(s)}

SrcUIDs == {src[i].uid : i \in 1..Len(src)}

\* The mailbox of n messages with UIDs 1..n, those of D carrying \Deleted.
Mailbox(n, D) == [i \in 1..n |-> [uid |-> i, deleted |-> i \in D]]

\* The history counters cycles and calls advance while counting is on.
Count(n) == IF counting THEN n + 1 ELSE n

Called(op) == [calls EXCEPT ![op] = Count(@)]

\* A session operation may succeed, or fail while fewer than MaxFailures
\* operations have failed in the run.
Outcomes == IF nfail < MaxFailures THEN {TRUE, FALSE} ELSE {TRUE}

Fail(op) == /\ failed' = failed \cup {op}
            /\ nfail' = nfail + 1

NoFail == UNCHANGED <<failed, nfail>>

\* ------------------------------------------------------------ copyMailbox
\* Mutant: the empty-mailbox return is missing.
IsEmptyMailboxNever(n) == FALSE

\* if mbox.Messages == 0 { return nil }
IsEmptyMailbox(n) == n = 0

\* Select(source, false) and the empty-mailbox return, then the progress bar.
SelectFirst ==
    /\ pc = "start"
    /\ calls' = Called("Select")
    /\ \E ok \in Outcomes :
        IF ~ok
        THEN /\ pc' = "ret_err"
             /\ retErr' = "select"
             /\ Fail("Select")
             /\ UNCHANGED <<count, total, bar>>
        ELSE /\ count' = Len(src)
             /\ NoFail
             /\ IF IsEmptyMailbox(Len(src))
                THEN /\ pc' = "ret_ok"
                     /\ UNCHANGED <<total, bar, retErr>>
                ELSE /\ total' = Len(src)
                     /\ bar' = 0
                     /\ pc' = "create"
                     /\ UNCHANGED retErr
    /\ UNCHANGED <<src, dest, batch, msgs, messages, messagesClosed, done,
                   doneClosed, fetchPos, fetchErr, ppc, cycles, createRes>>
    /\ UNCHANGED <<cycleOk, stored, counting>>

\* What Create can report: its kind and the text of the error it returns.
CreateReports ==
    { [kind |-> "ok",     text |-> Nil],
      [kind |-> "exists", text |-> "Mailbox already exists."],
      [kind |-> "exists", text |-> "Duplicate folder name (Failure)"],
      [kind |-> "other",  text |-> "Permission denied"] }

\* err != nil && err.Error() != "Mailbox already exists."
CreateIsFatal(text) == text # Nil /\ text # "Mailbox already exists."

\* to.Create(dest)
Create ==
    /\ pc = "create"
    /\ calls' = Called("Create")
    /\ \E r \in CreateReports :
        /\ r.kind = "other" => FALSE \in Outcomes
        /\ createRes' = r
        /\ IF r.kind = "other" THEN Fail("Create") ELSE NoFail
        /\ IF CreateIsFatal(r.text)
           THEN /\ pc' = "ret_err"
                /\ retErr' = "create"
           ELSE /\ pc' = "loop"
                /\ UNCHANGED retErr
    /\ UNCHANGED <<src, dest, count, total, bar, batch, msgs, messages,
                   messagesClosed, done, doneClosed, fetchPos, fetchErr, ppc,
                   cycles>>
    /\ UNCHANGED <<cycleOk, stored, counting>>

\* Mutant: the fetched range is empty.
BatchSizeNone(n) == 0

\* batch := uint32(10); if mbox.Messages < batch { batch = mbox.Messages }
BatchSize(n) == Min(BatchLimit, n)

\* for mbox.Messages > 0 { ... go func(){ Fetch } ... msgs := make(...) }
\* and the return nil that follows the loop.
LoopHead ==
    /\ pc = "loop"
    /\ IF count > 0
       THEN /\ cycles < MaxCycles
            /\ cycles' = Count(cycles)
            /\ batch' = BatchSize(count)
            /\ messages' = <<>>
            /\ messagesClosed' = FALSE
            /\ done' = <<>>
            /\ doneClosed' = FALSE
            /\ fetchPos' = 0
            /\ fetchErr' = Nil
            /\ ppc' = "fetching"
            /\ msgs' = <<>>
            /\ cycleOk' = {}
            /\ stored' = <<>>
            /\ calls' = Called("Fetch")
            /\ pc' = "select"
       ELSE /\ pc' = "ret_ok"
            /\ UNCHANGED <<cycles, batch, messages, messagesClosed, done,
                           doneClosed, fetchPos, fetchErr, ppc, msgs, calls,
                           cycleOk, stored>>
    /\ UNCHANGED <<src, dest, count, total, bar, retErr, failed, nfail,
                   createRes, counting>>

\* ------------------------------------------------- the producer goroutine
\* from.Fetch(seqset, items, messages) delivers the messages of 1:batch to
\* the channel in sequence-number order, blocking while the buffer is full.
FetchDeliver ==
    /\ ppc = "fetching"
    /\ fetchPos < batch
    /\ Len(messages) < MessagesCap
    /\ messages' = Append(messages, src[fetchPos + 1].uid)
    /\ fetchPos' = fetchPos + 1
    /\ UNCHANGED <<src, dest, count, total, bar, batch, msgs, messagesClosed,
                   done, doneClosed, fetchErr, ppc, pc, retErr, cycles, calls,
                   failed, nfail, createRes>>
    /\ UNCHANGED <<cycleOk, stored, counting>>

\* Fetch closes the messages channel and returns: nil once the whole range
\* is delivered, or an error at any point of the delivery.
FetchReturn ==
    /\ ppc = "fetching"
    /\ \E ok \in Outcomes :
        /\ ok => fetchPos = batch
        /\ fetchErr' = IF ok THEN Nil ELSE "fetch"
        /\ IF ok THEN NoFail ELSE Fail("Fetch")
    /\ messagesClosed' = TRUE
    /\ ppc' = "returned"
    /\ UNCHANGED <<src, dest, count, total, bar, batch, msgs, messages, done,
                   doneClosed, fetchPos, pc, retErr, cycles, calls, createRes>>
    /\ UNCHANGED <<cycleOk, stored, counting>>

\* if err != nil { log.Printf(...); done <- err }
ProducerSendErr ==
    /\ ppc = "returned"
    /\ fetchErr # Nil
    /\ Len(done) < DoneCap
    /\ done' = Append(done, fetchErr)
    /\ ppc' = "sent"
    /\ UNCHANGED <<src, dest, count, total, bar, batch, msgs, messages,
                   messagesClosed, doneClosed, fetchPos, fetchErr, pc, retErr,
                   cycles, calls, failed, nfail, createRes>>
    /\ UNCHANGED <<cycleOk, stored, counting>>

\* close(done)
ProducerCloseDone ==
    /\ \/ ppc = "returned" /\ fetchErr = Nil
       \/ ppc = "sent"
    /\ doneClosed' = TRUE
    /\ ppc' = "exited"
    /\ UNCHANGED <<src, dest, count, total, bar, batch, msgs, messages,
                   messagesClosed, done, fetchPos, fetchErr, pc, retErr, cycles,
                   calls, failed, nfail, createRes>>
    /\ UNCHANGED <<cycleOk, stored, counting>>

\* ---------------------------------------------- the consumer select loop
\* case err := <-done: if err != nil { return err }; break outer
DoneCase(err) == IF err # Nil THEN "ret_err" ELSE "store"

\* Mutant: the done case is taken without waiting for the producer.
DoneReadyAlways == TRUE

\* case err := <-done is ready when done holds an error or is closed.
DoneReady == Len(done) > 0 \/ doneClosed

\* The done case of the select.
RecvDone ==
    /\ pc = "select"
    /\ DoneReady
    /\ LET err == IF Len(done) > 0 THEN Head(done) ELSE Nil IN
        /\ done' = IF Len(done) > 0 THEN Tail(done) ELSE done
        /\ pc' = DoneCase(err)
        /\ retErr' = IF DoneCase(err) = "ret_err" THEN err ELSE retErr
    /\ UNCHANGED <<src, dest, count, total, bar, batch, msgs, messages,
                   messagesClosed, doneClosed, fetchPos, fetchErr, ppc, cycles,
                   calls, failed, nfail, createRes>>
    /\ UNCHANGED <<cycleOk, stored, counting>>

\* Mutant: the error of Append is dropped and the loop goes on.
AppendCaseIgnore(ok) == "select"

\* if err := to.Append(...); err != nil { return err }
AppendCase(ok) == IF ok THEN "select" ELSE "ret_err"

\* bar.Incr() of uiprogress: the count goes up by one, but not past Total.
BarIncr(b, t) == IF b + 1 > t THEN b ELSE b + 1

\* The messages case of the select: ready when the buffer holds a message
\* or the channel is closed.  A message is counted on the bar and its UID
\* collected; copyMailbox then calls to.Append.
RecvMessage ==
    /\ pc = "select"
    /\ Len(messages) > 0 \/ messagesClosed
    /\ IF Len(messages) = 0
       THEN /\ pc' = "store"
            /\ UNCHANGED <<messages, bar, msgs>>
       ELSE /\ messages' = Tail(messages)
            /\ bar' = BarIncr(bar, total)
            /\ msgs' = Append(msgs, Head(messages))
            /\ pc' = "append"
    /\ UNCHANGED <<src, dest, count, total, batch, messagesClosed, done,
                   doneClosed, fetchPos, fetchErr, ppc, retErr, cycles, calls,
                   failed, nfail, createRes, cycleOk, stored, counting>>

\* to.Append(dest, flags, date, body) of the message just collected answers.
AppendMsg ==
    /\ pc = "append"
    /\ calls' = Called("Append")
    /\ LET uid == msgs[Len(msgs)] IN
        \E ok \in Outcomes :
            /\ dest' = IF ok THEN [dest EXCEPT ![uid] = @ + 1] ELSE dest
            /\ cycleOk' = IF ok THEN cycleOk \cup {uid} ELSE cycleOk
            /\ pc' = AppendCase(ok)
            /\ retErr' = IF AppendCase(ok) = "ret_err" THEN "append"
                         ELSE retErr
            /\ IF ok THEN NoFail ELSE Fail("Append")
    /\ UNCHANGED <<src, count, total, bar, batch, msgs, messages,
                   messagesClosed, done, doneClosed, fetchPos, fetchErr, ppc,
                   cycles, createRes, stored, counting>>

\* ------------------------------------------------ mark, expunge, re-select
\* Mutant: the first collected UID is left out of the set.
DelSetTail(ms) == IF Len(ms) = 0 THEN {} ELSE SeqRange(Tail(ms))

\* del := new(imap.SeqSet); del.AddNum(msgs...)
DelSet(ms) == SeqRange(ms)

\* The server's +FLAGS (\Deleted) on the messages whose UID is in U.
MarkDeleted(s, U) ==
    [i \in 1..Len(s) |-> IF s[i].uid \in U
                         THEN [s[i] EXCEPT !.deleted = TRUE] ELSE s[i]]

\* Mutant: a failed UidStore is only logged.
UidStoreCaseLog(ok) == "expunge"

\* if err := from.UidStore(...); err != nil { log.Fatal(err) }
UidStoreCase(ok) == IF ok THEN "expunge" ELSE "fatal"

\* from.UidStore(del, +FLAGS, \Deleted): log.Fatal when it fails.
UidStore ==
    /\ pc = "store"
    /\ calls' = Called("UidStore")
    /\ stored' = <<DelSet(msgs)>>
    /\ \E ok \in Outcomes :
        IF ok
        THEN /\ src' = MarkDeleted(src, DelSet(msgs))
             /\ pc' = UidStoreCase(ok)
             /\ NoFail
        ELSE /\ pc' = UidStoreCase(ok)
             /\ Fail("UidStore")
             /\ UNCHANGED src
    /\ UNCHANGED <<dest, count, total, bar, batch, msgs, messages,
                   messagesClosed, done, doneClosed, fetchPos, fetchErr, ppc,
                   retErr, cycles, createRes, cycleOk, counting>>

\* The server's EXPUNGE: every message carrying \Deleted is removed.
Expunged(s) == SelectSeq(s, LAMBDA m : ~m.deleted)

\* Mutant: a failed Expunge is returned as an error.
ExpungeCaseAbort(ok) == IF ok THEN "reselect" ELSE "ret_err"

\* if err := from.Expunge(nil); err != nil { log.Printf(...) }
ExpungeCase(ok) == "reselect"

\* from.Expunge(nil)
Expunge ==
    /\ pc = "expunge"
    /\ calls' = Called("Expunge")
    /\ \E ok \in Outcomes :
        /\ src' = IF ok THEN Expunged(src) ELSE src
        /\ pc' = ExpungeCase(ok)
        /\ retErr' = IF ExpungeCase(ok) = "ret_err" THEN "expunge" ELSE retErr
        /\ IF ok THEN NoFail ELSE Fail("Expunge")
    /\ UNCHANGED <<dest, count, total, bar, batch, msgs, messages,
                   messagesClosed, done, doneClosed, fetchPos, fetchErr, ppc,
                   cycles, createRes>>
    /\ UNCHANGED <<cycleOk, stored, counting>>

\* mbox, err = from.Select(source, false); if err != nil { return err }
Reselect ==
    /\ pc = "reselect"
    /\ calls' = Called("Select")
    /\ \E ok \in Outcomes :
        IF ok
        THEN /\ count' = Len(src)
             /\ pc' = "loop"
             /\ NoFail
             /\ UNCHANGED retErr
        ELSE /\ pc' = "ret_err"
             /\ retErr' = "select"
             /\ Fail("Select")
             /\ UNCHANGED count
    /\ UNCHANGED <<src, dest, total, bar, batch, msgs, messages,
                   messagesClosed, done, doneClosed, fetchPos, fetchErr, ppc,
                   cycles, createRes>>
    /\ UNCHANGED <<cycleOk, stored, counting>>

\* ------------------------------------------ mailbox set resolution (main)
\* Mailbox names are byte strings, here sequences of byte values.
Names == { <<1>>, <<1, 1>>, <<2>> }

\* The names a mapping entry can rename to: a source name and a new name.
RenameTargets == { <<2>>, <<2, 1>> }

\* The most names of cfg.Include.
MaxInclude == 2
\* The most names of cfg.Exclude.
MaxExclude == 1
\* The most entries of cfg.Mapping.
MaxMapping == 2
\* The most names List delivers a second time.
MaxRepeats == 1

\* mboxSrv := make(chan *imap.MailboxInfo, 10)
MboxSrvCap == 10

SeqsUpTo(S, n) == UNION { [1..k -> S] : k \in 0..n }

Configs ==
    [ include : SeqsUpTo(Names, MaxInclude),
      exclude : SeqsUpTo(Names, MaxExclude),
      mapping : UNION { [K -> RenameTargets] :
                          K \in {L \in SUBSET Names :
                                   Cardinality(L) <= MaxMapping} } ]

\* a < b in the byte order of Go's string comparison.
StrLess(a, b) ==
    \E i \in 1..(Min(Len(a), Len(b)) + 1) :
        /\ \A j \in 1..(i - 1) : a[j] = b[j]
        /\ \/ i > Len(a) /\ i <= Len(b)
           \/ i <= Len(a) /\ i <= Len(b) /\ a[i] < b[i]

\* s with x inserted before its first element that is not less than x.
InsertSorted(x, s) ==
    LET k == Cardinality({i \in 1..Len(s) : StrLess(s[i], x)}) IN
    SubSeq(s, 1, k) \o <<x>> \o SubSeq(s, k + 1, Len(s))

RECURSIVE SortFrom(_, _)
SortFrom(s, acc) ==
    IF s = <<>> THEN acc ELSE SortFrom(Tail(s), InsertSorted(Head(s), acc))

\* Mutant: boxesToCopy is left in map iteration order.
SortStringsNot(s) == s

\* sort.Strings(boxesToCopy)
SortStrings(s) == SortFrom(s, <<>>)

\* The orders in which a range over a map with key set K can yield its keys.
KeyOrders(K) ==
    {s \in [1..Cardinality(K) -> K] : \A k \in K : \E i \in DOMAIN s : s[i] = k}

\* mailboxes[k] = v
MapSet(m, k, v) == [x \in DOMAIN m \cup {k} |-> IF x = k THEN v ELSE m[x]]

RECURSIVE MapSetAll(_, _)
\* for _, m := range names { mailboxes[m] = m }
MapSetAll(m, names) ==
    IF names = <<>> THEN m
    ELSE MapSetAll(MapSet(m, Head(names), Head(names)), Tail(names))

\* delete(mailboxes, v)
MapDelete(m, k) == [x \in DOMAIN m \ {k} |-> m[x]]

RECURSIVE MapDeleteAll(_, _)
\* for _, v := range cfg.Exclude { delete(mailboxes, v) }
MapDeleteAll(m, names) ==
    IF names = <<>> THEN m
    ELSE MapDeleteAll(MapDelete(m, Head(names)), Tail(names))

EmptyMap == [x \in {} |-> <<>>]

\* Mutant: the include list never replaces discovery.
UseIncludeNever(include) == FALSE

\* if len(cfg.Include) != 0
UseInclude(include) == Len(include) # 0

\* mailboxes := make(map[string]string), then the include loop, or the
\* start of the List goroutine.
ResolveStart ==
    /\ rpc = "start"
    /\ IF UseInclude(cfg.include)
       THEN /\ mailboxes' = MapSetAll(EmptyMap, cfg.include)
            /\ rpc' = "mapping"
            /\ UNCHANGED <<mboxSrv, mboxSrvClosed, listDone, listErr, listed,
                           repeats, listCalls, lpc>>
       ELSE /\ mailboxes' = EmptyMap
            /\ mboxSrv' = <<>>
            /\ mboxSrvClosed' = FALSE
            /\ listDone' = <<>>
            /\ listErr' = Nil
            /\ listed' = {}
            /\ repeats' = 0
            /\ listCalls' = listCalls + 1
            /\ lpc' = "listing"
            /\ rpc' = "range"
    /\ UNCHANGED <<cfg, discovered, boxesToCopy, run, prevPlan>>

\* from.List("", "*", mboxSrv) delivers the names of the account in any
\* order, a name possibly more than once, blocking while the buffer is full.
ListDeliver ==
    /\ lpc = "listing"
    /\ Len(mboxSrv) < MboxSrvCap
    /\ \E n \in discovered :
        /\ n \in listed => repeats < MaxRepeats
        /\ mboxSrv' = Append(mboxSrv, n)
        /\ listed' = listed \cup {n}
        /\ repeats' = IF n \in listed THEN repeats + 1 ELSE repeats
    /\ UNCHANGED <<cfg, discovered, mailboxes, boxesToCopy, mboxSrvClosed,
                   listDone, listErr, listCalls, lpc, rpc, run, prevPlan>>

\* List closes the mboxSrv channel and returns: nil once every name is
\* delivered, or an error at any point.
ListReturn ==
    /\ lpc = "listing"
    /\ \E ok \in BOOLEAN :
        /\ ok => listed = discovered
        /\ listErr' = IF ok THEN Nil ELSE "list"
    /\ mboxSrvClosed' = TRUE
    /\ lpc' = "returned"
    /\ UNCHANGED <<cfg, discovered, mailboxes, boxesToCopy, mboxSrv, listDone,
                   listed, repeats, listCalls, rpc, run, prevPlan>>

\* done <- from.List(...)
ListSendDone ==
    /\ lpc = "returned"
    /\ Len(listDone) < DoneCap
    /\ listDone' = Append(listDone, listErr)
    /\ lpc' = "exited"
    /\ UNCHANGED <<cfg, discovered, mailboxes, boxesToCopy, mboxSrv,
                   mboxSrvClosed, listErr, listed, repeats, listCalls, rpc, run,
                   prevPlan>>

\* for m := range mboxSrv { mailboxes[m.Name] = m.Name }
RangeMboxSrv ==
    /\ rpc = "range"
    /\ Len(mboxSrv) > 0 \/ mboxSrvClosed
    /\ IF Len(mboxSrv) > 0
       THEN /\ mailboxes' = MapSet(mailboxes, Head(mboxSrv), Head(mboxSrv))
            /\ mboxSrv' = Tail(mboxSrv)
            /\ UNCHANGED rpc
       ELSE /\ rpc' = "waitdone"
            /\ UNCHANGED <<mailboxes, mboxSrv>>
    /\ UNCHANGED <<cfg, discovered, boxesToCopy, mboxSrvClosed, listDone,
                   listErr, listed, repeats, listCalls, lpc, run, prevPlan>>

\* if err := <-done; err != nil { log.Fatal(err) }
RecvListDone ==
    /\ rpc = "waitdone"
    /\ Len(listDone) > 0
    /\ listDone' = Tail(listDone)
    /\ rpc' = IF Head(listDone) # Nil THEN "fatal" ELSE "mapping"
    /\ UNCHANGED <<cfg, discovered, mailboxes, boxesToCopy, mboxSrv,
                   mboxSrvClosed, listErr, listed, repeats, listCalls, lpc, run,
                   prevPlan>>

\* Mutant: the mapping loop sets every key, present in the map or not.
MappedAdds(m, mapping) ==
    [k \in DOMAIN m \cup DOMAIN mapping |->
        IF k \in DOMAIN mapping THEN mapping[k] ELSE m[k]]

\* for k, v := range cfg.Mapping { if _, ok := mailboxes[k]; ok { mailboxes[k] = v } }
Mapped(m, mapping) ==
    [k \in DOMAIN m |-> IF k \in DOMAIN mapping THEN mapping[k] ELSE m[k]]

ApplyMapping ==
    /\ rpc = "mapping"
    /\ mailboxes' = Mapped(mailboxes, cfg.mapping)
    /\ rpc' = "exclude"
    /\ UNCHANGED <<cfg, discovered, boxesToCopy, mboxSrv, mboxSrvClosed,
                   listDone, listErr, listed, repeats, listCalls, lpc, run,
                   prevPlan>>

\* if len(cfg.Exclude) != 0 { for _, v := range cfg.Exclude { delete(...) } }
Excluded(m, exclude) ==
    IF Len(exclude) # 0 THEN MapDeleteAll(m, exclude) ELSE m

ApplyExclude ==
    /\ rpc = "exclude"
    /\ mailboxes' = Excluded(mailboxes, cfg.exclude)
    /\ rpc' = "collect"
    /\ UNCHANGED <<cfg, discovered, boxesToCopy, mboxSrv, mboxSrvClosed,
                   listDone, listErr, listed, repeats, listCalls, lpc, run,
                   prevPlan>>

\* boxesToCopy filled by a range over the map, in any key order, then
\* sort.Strings(boxesToCopy).
BuildPlan ==
    /\ rpc = "collect"
    /\ \E order \in KeyOrders(DOMAIN mailboxes) :
        boxesToCopy' = SortStrings(order)
    /\ rpc' = "resolved"
    /\ UNCHANGED <<cfg, discovered, mailboxes, mboxSrv, mboxSrvClosed,
                   listDone, listErr, listed, repeats, listCalls, lpc, run,
                   prevPlan>>

\* The pairs copyMailbox is called with, in order: f, mailboxes[f].
Plan == [i \in 1..Len(boxesToCopy) |->
            <<boxesToCopy[i], mailboxes[boxesToCopy[i]]>>]

\* A second run of main, with the same configuration, on the same account.
Rerun ==
    /\ rpc = "resolved"
    /\ run = 1
    /\ run' = 2
    /\ prevPlan' = Plan
    /\ mailboxes' = EmptyMap
    /\ boxesToCopy' = <<>>
    /\ mboxSrv' = <<>>
    /\ mboxSrvClosed' = FALSE
    /\ listDone' = <<>>
    /\ listErr' = Nil
    /\ listed' = {}
    /\ repeats' = 0
    /\ listCalls' = 0
    /\ lpc' = "idle"
    /\ rpc' = "start"
    /\ UNCHANGED <<cfg, discovered>>

\* ------------------------------------------------------ the specifications
\* The positions at which a message may carry \Deleted before the run: the
\* first message of the first batch and the first message beyond it.
PreDeletedAt == {1, BatchLimit + 1}

\* The initial contents of the source mailbox.
InitialMailboxes ==
    { Mailbox(n, D) : n \in 0..MaxMsgs, D \in SUBSET PreDeletedAt }

\* copyMailbox is entered.
CopyInit ==
    /\ dest = [u \in UIDs |-> 0]
    /\ count = 0
    /\ total = 0
    /\ bar = 0
    /\ batch = 0
    /\ msgs = <<>>
    /\ messages = <<>>
    /\ messagesClosed = FALSE
    /\ done = <<>>
    /\ doneClosed = FALSE
    /\ fetchPos = 0
    /\ fetchErr = Nil
    /\ ppc = "idle"
    /\ pc = "start"
    /\ retErr = Nil
    /\ cycles = 0
    /\ calls = [op \in Ops |-> 0]
    /\ failed = {}
    /\ nfail = 0
    /\ createRes = [kind |-> "none", text |-> Nil]
    /\ cycleOk = {}
    /\ stored = <<>>

\* main has connected both sessions and made the empty map.
ResolveInit ==
    /\ mailboxes = EmptyMap
    /\ boxesToCopy = <<>>
    /\ mboxSrv = <<>>
    /\ mboxSrvClosed = FALSE
    /\ listDone = <<>>
    /\ listErr = Nil
    /\ listed = {}
    /\ repeats = 0
    /\ listCalls = 0
    /\ lpc = "idle"
    /\ rpc = "start"
    /\ run = 1
    /\ prevPlan = <<>>

\* ------------------------------------------------------- the run of main
\* The most mailboxes of the source account of a run of main.
MaxPlan == 2
\* The largest message count of a mailbox of the account.
MaxPlanMsgs == 1

\* The indices of the entries of a plan.
PlanIdx == 1..Cardinality(Names)

\* The source accounts with the mailboxes D: each mailbox with its messages
\* (a name the account does not hold has none to report).
Accounts(D) ==
    { b \in [Names -> {Mailbox(k, {}) : k \in 0..MaxPlanMsgs}] :
        \A n \in Names \ D : b[n] = <<>> }

\* log.Fatal: os.Exit(1), the deferred calls do not run.
Fatal == mpc' = "exit1"

\* from, err := createClient(cfg.From); log.Fatal on error; defer from.Close()
ConnectFrom ==
    /\ mpc = "connect_from"
    /\ \E ok \in Outcomes :
        IF ok
        THEN /\ fromSess' = "open"
             /\ mpc' = IF listOnly THEN "list_only" ELSE "connect_to"
             /\ NoFail
        ELSE /\ Fatal
             /\ Fail("Connect")
             /\ UNCHANGED fromSess
    /\ UNCHANGED lvars
    /\ UNCHANGED <<listOnly, toSess, boxes, idx, touched, outcome>>

\* if listOnly { mboxSrv := make(...); done := make(...); go func() {
\* done <- from.List("", "*", mboxSrv) }() ...
ListOnlyStart ==
    /\ mpc = "list_only"
    /\ mboxSrv' = <<>>
    /\ mboxSrvClosed' = FALSE
    /\ listDone' = <<>>
    /\ listErr' = Nil
    /\ listed' = {}
    /\ repeats' = 0
    /\ listCalls' = listCalls + 1
    /\ lpc' = "listing"
    /\ mpc' = "list_range"
    /\ UNCHANGED <<cfg, discovered, mailboxes, boxesToCopy, rpc, run, prevPlan>>
    /\ UNCHANGED cvars
    /\ UNCHANGED <<listOnly, fromSess, toSess, boxes, idx, touched, outcome>>

\* for m := range mboxSrv { fmt.Println(m.Name) }: one name is received.
ListOnlyPrint ==
    /\ mpc = "list_range"
    /\ Len(mboxSrv) > 0
    /\ mboxSrv' = Tail(mboxSrv)
    /\ UNCHANGED <<cfg, discovered, mailboxes, boxesToCopy, mboxSrvClosed,
                   listDone, listErr, listed, repeats, listCalls, lpc, rpc,
                   run, prevPlan>>
    /\ UNCHANGED cvars
    /\ UNCHANGED mvars

\* The range over the closed channel ends; return: the deferred
\* from.Close() runs.
ListOnlyReturn ==
    /\ mpc = "list_range"
    /\ Len(mboxSrv) = 0
    /\ mboxSrvClosed
    /\ fromSess' = "closed"
    /\ mpc' = "exit0"
    /\ UNCHANGED rvars
    /\ UNCHANGED cvars
    /\ UNCHANGED <<listOnly, toSess, boxes, idx, touched, outcome>>

\* to, err := createClient(cfg.To); log.Fatal on error; defer to.Close()
ConnectTo ==
    /\ mpc = "connect_to"
    /\ \E ok \in Outcomes :
        IF ok
        THEN /\ toSess' = "open"
             /\ mpc' = "resolve"
             /\ NoFail
        ELSE /\ Fatal
             /\ Fail("Connect")
             /\ UNCHANGED toSess
    /\ UNCHANGED lvars
    /\ UNCHANGED <<listOnly, fromSess, boxes, idx, touched, outcome>>

\* A step of the List goroutine within the run of main, in the list-only
\* branch or in the resolution.
InList(step) ==
    /\ mpc \in {"list_range", "resolve"}
    /\ step
    /\ UNCHANGED cvars
    /\ UNCHANGED mvars

\* A step of the mailbox set resolution within the run of main: the
\* log.Fatal on the error of List ends the process, and the resolved plan
\* is logged and handed to the driver loop.
InResolve(step) ==
    /\ mpc = "resolve"
    /\ step
    /\ mpc' = IF rpc' = "fatal" THEN "exit1"
              ELSE IF rpc' = "resolved" THEN "driver" ELSE mpc
    /\ UNCHANGED cvars
    /\ UNCHANGED <<listOnly, fromSess, toSess, boxes, idx, touched, outcome>>

\* copyMailbox is called on the mailbox mb: its locals are fresh.
CopyCall(mb) ==
    /\ src' = mb
    /\ dest' = [u \in UIDs |-> 0]
    /\ count' = 0
    /\ total' = 0
    /\ bar' = 0
    /\ batch' = 0
    /\ msgs' = <<>>
    /\ messages' = <<>>
    /\ messagesClosed' = FALSE
    /\ done' = <<>>
    /\ doneClosed' = FALSE
    /\ fetchPos' = 0
    /\ fetchErr' = Nil
    /\ ppc' = "idle"
    /\ pc' = "start"
    /\ retErr' = Nil
    /\ cycles' = 0
    /\ calls' = [op \in Ops |-> 0]
    /\ createRes' = [kind |-> "none", text |-> Nil]
    /\ cycleOk' = {}
    /\ stored' = <<>>
    /\ UNCHANGED <<failed, nfail, counting>>

\* for _, f := range boxesToCopy { copyMailbox(from, to, f, mailboxes[f]) }
DriverCall ==
    /\ mpc = "driver"
    /\ idx < Len(boxesToCopy)
    /\ idx' = idx + 1
    /\ CopyCall(boxes[boxesToCopy[idx + 1]])
    /\ mpc' = "copying"
    /\ UNCHANGED <<listOnly, fromSess, toSess, boxes, touched, outcome>>

\* Mutant: the error of copyMailbox is dropped and the loop goes on.
DriverCaseContinue(err) == "driver"

\* if err := copyMailbox(...); err != nil { log.Fatal(err) }
DriverCase(err) == IF err # Nil THEN "exit1" ELSE "driver"

\* copyMailbox returns to the driver loop.
CopyReturn ==
    /\ mpc = "copying"
    /\ pc \in {"ret_ok", "ret_err"}
    /\ outcome' = [outcome EXCEPT ![idx] = IF retErr # Nil THEN "err" ELSE "ok"]
    /\ mpc' = DriverCase(retErr)
    /\ UNCHANGED cvars
    /\ UNCHANGED <<listOnly, fromSess, toSess, boxes, idx, touched>>

\* The loop is over and main returns: the deferred to.Close() and
\* from.Close() run.
MainReturn ==
    /\ mpc = "driver"
    /\ idx = Len(boxesToCopy)
    /\ toSess' = "closed"
    /\ fromSess' = "closed"
    /\ mpc' = "exit0"
    /\ UNCHANGED cvars
    /\ UNCHANGED <<listOnly, boxes, idx, touched, outcome>>

\* The session operations issued by the step.
CallsMade == SumOver(calls', Ops) - SumOver(calls, Ops)

\* A step of the producer goroutine within the run of main: started by a
\* call of copyMailbox, it runs on after that call has returned, until the
\* process ends or the next call makes new channels and a new goroutine.
InProducer(step) ==
    /\ mpc \in {"copying", "driver"}
    /\ step
    /\ UNCHANGED mvars

\* A step of copyMailbox within the run of main; the log.Fatal of
\* copyMailbox ends the process.
InCopy(step) ==
    /\ mpc = "copying"
    /\ step
    /\ touched' = IF CallsMade > 0 THEN touched \cup {idx} ELSE touched
    /\ IF pc' = "fatal"
       THEN /\ Fatal
            /\ outcome' = [outcome EXCEPT ![idx] = "fatal"]
       ELSE UNCHANGED <<mpc, outcome>>
    /\ UNCHANGED <<listOnly, fromSess, toSess, boxes, idx>>

\* main is not modelled: both sessions are open and copyMailbox runs.
MainFixed ==
    /\ listOnly = FALSE
    /\ mpc = "copying"
    /\ fromSess = "open"
    /\ toSess = "open"
    /\ boxes = [n \in Names |-> <<>>]
    /\ idx = 0
    /\ touched = {}
    /\ outcome = [i \in PlanIdx |-> "none"]

\* One call of copyMailbox on a source mailbox of any initial contents.
Init ==
    /\ src \in InitialMailboxes
    /\ CopyInit
    /\ counting = TRUE
    /\ cfg = [include |-> <<>>, exclude |-> <<>>, mapping |-> EmptyMap]
    /\ discovered = {}
    /\ ResolveInit
    /\ MainFixed

Next ==
    \/ SelectFirst /\ UNCHANGED <<rvars, mvars>>
    \/ Create /\ UNCHANGED <<rvars, mvars>>
    \/ LoopHead /\ UNCHANGED <<rvars, mvars>>
    \/ FetchDeliver /\ UNCHANGED <<rvars, mvars>>
    \/ FetchReturn /\ UNCHANGED <<rvars, mvars>>
    \/ ProducerSendErr /\ UNCHANGED <<rvars, mvars>>
    \/ ProducerCloseDone /\ UNCHANGED <<rvars, mvars>>
    \/ RecvDone /\ UNCHANGED <<rvars, mvars>>
    \/ RecvMessage /\ UNCHANGED <<rvars, mvars>>
    \/ AppendMsg /\ UNCHANGED <<rvars, mvars>>
    \/ UidStore /\ UNCHANGED <<rvars, mvars>>
    \/ Expunge /\ UNCHANGED <<rvars, mvars>>
    \/ Reselect /\ UNCHANGED <<rvars, mvars>>

Spec == Init /\ [][Next]_vars

\* One call of copyMailbox in which every session operation succeeds and
\* nothing else changes the source mailbox.  The history counters are off,
\* so that a cycle that moves no message comes back to the same state.
InitLive ==
    /\ src \in InitialMailboxes
    /\ CopyInit
    /\ counting = FALSE
    /\ cfg = [include |-> <<>>, exclude |-> <<>>, mapping |-> EmptyMap]
    /\ discovered = {}
    /\ ResolveInit
    /\ MainFixed

\* No session operation fails in the step.
AllSucceed == nfail' = nfail /\ pc' # "ret_err"

\* The steps of the producer goroutine.
ProducerLive ==
    \/ FetchDeliver /\ AllSucceed /\ UNCHANGED <<rvars, mvars>>
    \/ FetchReturn /\ AllSucceed /\ UNCHANGED <<rvars, mvars>>
    \/ ProducerCloseDone /\ AllSucceed /\ UNCHANGED <<rvars, mvars>>

\* The steps of copyMailbox.
ConsumerLive ==
    \/ SelectFirst /\ AllSucceed /\ UNCHANGED <<rvars, mvars>>
    \/ Create /\ AllSucceed /\ UNCHANGED <<rvars, mvars>>
    \/ LoopHead /\ AllSucceed /\ UNCHANGED <<rvars, mvars>>
    \/ RecvDone /\ AllSucceed /\ UNCHANGED <<rvars, mvars>>
    \/ RecvMessage /\ AllSucceed /\ UNCHANGED <<rvars, mvars>>
    \/ AppendMsg /\ AllSucceed /\ UNCHANGED <<rvars, mvars>>
    \/ UidStore /\ AllSucceed /\ UNCHANGED <<rvars, mvars>>
    \/ Expunge /\ AllSucceed /\ UNCHANGED <<rvars, mvars>>
    \/ Reselect /\ AllSucceed /\ UNCHANGED <<rvars, mvars>>

\* The messages case of the select receiving a message.
RecvSome ==
    Len(messages) > 0 /\ RecvMessage /\ AllSucceed /\ UNCHANGED <<rvars, mvars>>

NextLive == ProducerLive \/ ConsumerLive

\* Both goroutines are scheduled fairly, and the select, which picks among
\* its ready cases at random, does not pass over a message for ever.
FairLive ==
    /\ WF_vars(ProducerLive)
    /\ WF_vars(ConsumerLive)
    /\ SF_vars(RecvSome)

SpecLive == InitLive /\ [][NextLive]_vars /\ FairLive

\* A run of main from the loaded configuration on, with or without the
\* -list flag, on any source account of up to MaxPlan mailboxes.  The
\* configuration is the empty one: the plan is what List discovers.
InitMain ==
    /\ listOnly \in BOOLEAN
    /\ cfg = [include |-> <<>>, exclude |-> <<>>, mapping |-> EmptyMap]
    /\ discovered \in {D \in SUBSET Names : Cardinality(D) <= MaxPlan}
    /\ boxes \in Accounts(discovered)
    /\ mpc = "connect_from"
    /\ fromSess = "none"
    /\ toSess = "none"
    /\ idx = 0
    /\ touched = {}
    /\ outcome = [i \in PlanIdx |-> "none"]
    /\ src = <<>>
    /\ CopyInit
    /\ counting = TRUE
    /\ ResolveInit

NextMain ==
    \/ ConnectFrom /\ UNCHANGED rvars
    \/ ListOnlyStart
    \/ ListOnlyPrint
    \/ ListOnlyReturn
    \/ ConnectTo /\ UNCHANGED rvars
    \/ InResolve(ResolveStart)
    \/ InList(ListDeliver)
    \/ InList(ListReturn)
    \/ InList(ListSendDone)
    \/ InResolve(RangeMboxSrv)
    \/ InResolve(RecvListDone)
    \/ InResolve(ApplyMapping)
    \/ InResolve(ApplyExclude)
    \/ InResolve(BuildPlan)
    \/ DriverCall /\ UNCHANGED rvars
    \/ CopyReturn /\ UNCHANGED rvars
    \/ MainReturn /\ UNCHANGED rvars
    \/ InCopy(SelectFirst) /\ UNCHANGED rvars
    \/ InCopy(Create) /\ UNCHANGED rvars
    \/ InCopy(LoopHead) /\ UNCHANGED rvars
    \/ InProducer(FetchDeliver) /\ UNCHANGED rvars
    \/ InProducer(FetchReturn) /\ UNCHANGED rvars
    \/ InProducer(ProducerSendErr) /\ UNCHANGED rvars
    \/ InProducer(ProducerCloseDone) /\ UNCHANGED rvars
    \/ InCopy(RecvDone) /\ UNCHANGED rvars
    \/ InCopy(RecvMessage) /\ UNCHANGED rvars
    \/ InCopy(AppendMsg) /\ UNCHANGED rvars
    \/ InCopy(UidStore) /\ UNCHANGED rvars
    \/ InCopy(Expunge) /\ UNCHANGED rvars
    \/ InCopy(Reselect) /\ UNCHANGED rvars

SpecMain == InitMain /\ [][NextMain]_vars

\* The resolution of main on any configuration and any source account.
InitResolve ==
    /\ cfg \in Configs
    /\ discovered \in SUBSET Names
    /\ ResolveInit
    /\ MainFixed
    /\ src = <<>>
    /\ CopyInit
    /\ counting = TRUE

NextResolve ==
    \/ ResolveStart /\ UNCHANGED <<cvars, mvars>>
    \/ ListDeliver /\ UNCHANGED <<cvars, mvars>>
    \/ ListReturn /\ UNCHANGED <<cvars, mvars>>
    \/ ListSendDone /\ UNCHANGED <<cvars, mvars>>
    \/ RangeMboxSrv /\ UNCHANGED <<cvars, mvars>>
    \/ RecvListDone /\ UNCHANGED <<cvars, mvars>>
    \/ ApplyMapping /\ UNCHANGED <<cvars, mvars>>
    \/ ApplyExclude /\ UNCHANGED <<cvars, mvars>>
    \/ BuildPlan /\ UNCHANGED <<cvars, mvars>>
    \/ Rerun /\ UNCHANGED <<cvars, mvars>>

SpecResolve == InitResolve /\ [][NextResolve]_vars

\* ------------------------------------------------------------- the claims
\* C1: a message leaves the source mailbox (by Expunge) only if an Append of
\* that message to the destination has succeeded before.
C1_AppendBeforeDelete ==
    [][\A i \in 1..Len(src) :
          src[i].uid \notin SrcUIDs' => dest[src[i].uid] >= 1]_vars

\* The first Select has succeeded and reported 0 messages.
FirstSelectEmpty ==
    calls["Select"] = 1 /\ "Select" \notin failed /\ count = 0

\* C2: when the first Select reports 0 messages, copyMailbox returns success
\* and has issued no Create, Append, Fetch, UidStore or Expunge.
C2_EmptyMailboxNoOps ==
    FirstSelectEmpty =>
        /\ pc = "ret_ok"
        /\ retErr = Nil
        /\ \A op \in Ops \ {"Select"} : calls[op] = 0

C2_Witness ==
    FirstSelectEmpty /\ pc = "ret_ok" /\ Len(src) = 0

\* C3: a mailbox of 1..10 messages, no operation failing, is copied in
\* exactly one cycle under every interleaving, and on return the number of
\* messages appended and the progress count equal the message count.
C3_OneCycle ==
    (pc = "ret_ok" /\ nfail = 0 /\ total \in 1..BatchLimit) =>
        /\ cycles = 1
        /\ Appended = total
        /\ bar = total

\* C4: for a mailbox of more than 10 messages, no Append failing, when
\* copyMailbox returns success every original message has been appended
\* exactly once.
C4_ExactlyOnce ==
    (pc = "ret_ok" /\ total > BatchLimit /\ "Append" \notin failed) =>
        /\ Appended = total
        /\ \A u \in 1..total : dest[u] = 1

\* C5: when Create reports that the mailbox already exists, copyMailbox
\* surfaces no error and goes on into the loop as after a successful Create;
\* on any other Create error it returns the error and issues no Fetch,
\* Append, UidStore or Expunge.
C5_CreateExists ==
    /\ createRes.kind = "exists" =>
          /\ retErr # "create"
          /\ cycles = 0 => pc = "loop"
    /\ createRes.kind = "other" =>
          /\ pc = "ret_err"
          /\ retErr = "create"
          /\ \A op \in {"Fetch", "Append", "UidStore", "Expunge"} :
                calls[op] = 0

\* C6: an Expunge, failing or not, is followed by the re-Select and no error
\* is returned for it; a re-Select that succeeds goes back to the loop head
\* with the refreshed count, and the loop head starts another cycle when
\* that count is above 0.
C6_ExpungeFailureContinues ==
    [][/\ (pc = "expunge" /\ pc' # pc) =>
            /\ pc' = "reselect"
            /\ retErr' = retErr
       /\ (pc = "reselect" /\ pc' # pc) =>
            /\ calls'["Select"] = calls["Select"] + 1
            /\ "Select" \notin failed' =>
                  /\ pc' = "loop"
                  /\ count' = Len(src)
       /\ (pc = "loop" /\ count > 0 /\ pc' # pc) =>
            /\ pc' = "select"
            /\ cycles' = cycles + 1
            /\ calls'["Fetch"] = calls["Fetch"] + 1]_vars

C6_Witness ==
    "Expunge" \in failed /\ cycles = 2 /\ pc = "select" /\ retErr = Nil

\* C7: when an Append fails copyMailbox returns that error at once: no
\* further Append, and no UidStore, Expunge or re-Select of that cycle, is
\* ever issued, so the source mailbox is as the cycle found it.
C7_AppendFailureAborts ==
    "Append" \in failed =>
        /\ pc = "ret_err"
        /\ retErr = "append"
        /\ calls["Append"] = Appended + 1
        /\ calls["UidStore"] = cycles - 1
        /\ calls["Expunge"] = cycles - 1
        /\ calls["Select"] = cycles
        /\ \A u \in SeqRange(msgs) : u \in SrcUIDs

C7_Witness ==
    "Append" \in failed /\ Len(msgs) >= 2 /\ cycles = 2

\* C8: with a non-empty include list the resolution starts from exactly the
\* names of the include list, each mapped to itself, whatever the source
\* account holds, and List is never issued.
C8_IncludeReplacesDiscovery ==
    Len(cfg.include) # 0 =>
        /\ listCalls = 0
        /\ lpc = "idle"
        /\ rpc \notin {"range", "waitdone", "fatal"}
        /\ rpc = "mapping" =>
              /\ DOMAIN mailboxes = SeqRange(cfg.include)
              /\ \A k \in DOMAIN mailboxes : mailboxes[k] = k
        /\ rpc # "start" => DOMAIN mailboxes \subseteq SeqRange(cfg.include)

C8_Witness ==
    /\ rpc = "mapping"
    /\ Len(cfg.include) = 2
    /\ cfg.include[1] # cfg.include[2]
    /\ discovered \ SeqRange(cfg.include) # {}
    /\ SeqRange(cfg.include) \ discovered # {}

\* C9: with an empty include list the sources of the plan are the
\* discovered names minus the excluded names, each destination is
\* mapping[c] when c is a key of mapping and c otherwise, and a mapping key
\* that was not discovered is no source of the plan.
C9_DiscoveredMinusExclude ==
    (Len(cfg.include) = 0 /\ rpc = "resolved") =>
        /\ SeqRange(boxesToCopy) = discovered \ SeqRange(cfg.exclude)
        /\ \A i \in 1..Len(Plan) :
              Plan[i][2] = IF Plan[i][1] \in DOMAIN cfg.mapping
                           THEN cfg.mapping[Plan[i][1]] ELSE Plan[i][1]
        /\ \A k \in DOMAIN cfg.mapping \ discovered :
              \A i \in 1..Len(Plan) : Plan[i][1] # k

C9_Witness ==
    /\ Len(cfg.include) = 0
    /\ rpc = "resolved"
    /\ DOMAIN cfg.mapping \ discovered # {}
    /\ DOMAIN cfg.mapping \cap discovered \cap SeqRange(cfg.exclude) # {}
    /\ Len(Plan) >= 1

\* C10: the resolved plan lists its sources in strictly ascending byte
\* order, each once, and a second run on the same configuration and the
\* same account, whatever the order and repeats of the listing, resolves
\* the same plan.
C10_Deterministic ==
    rpc = "resolved" =>
        /\ \A i, j \in 1..Len(boxesToCopy) :
              i < j => StrLess(boxesToCopy[i], boxesToCopy[j])
        /\ run = 2 => Plan = prevPlan

C10_Witness ==
    /\ rpc = "resolved"
    /\ run = 2
    /\ Len(cfg.include) = 0
    /\ Len(Plan) >= 2
    /\ repeats > 0

\* C11: the mailboxes are copied one at a time in plan order: an operation
\* for an entry is issued only after copyMailbox has returned success for
\* every earlier entry, and once copyMailbox returns an error or ends the
\* process no operation is issued for a later entry and main ends with a
\* non-zero exit.
C11_OneAtATimeInOrder ==
    /\ \A i \in touched : \A j \in 1..(i - 1) : outcome[j] = "ok"
    /\ touched \subseteq 1..Len(boxesToCopy)
    /\ \A i \in PlanIdx :
          outcome[i] \in {"err", "fatal"} =>
              /\ mpc = "exit1"
              /\ \A j \in touched : j <= i

C11_Witness ==
    /\ Len(boxesToCopy) = 2
    /\ outcome[1] = "err"
    /\ mpc = "exit1"
    /\ Len(boxes[boxesToCopy[2]]) > 0
    /\ touched = {1}

\* C12: when the process has ended, on every exit path, each session that
\* was opened has been closed.
C12_SessionsClosedOnExit ==
    mpc \in {"exit0", "exit1"} =>
        /\ fromSess # "open"
        /\ toSess # "open"

\* C13: the UID set passed to the UidStore of a cycle is exactly the set of
\* the UIDs of the messages whose Append succeeded in that cycle.
C13_StoredAreAppended ==
    stored # <<>> => stored[1] = cycleOk

C13_Witness ==
    /\ stored # <<>>
    /\ cycles = 2
    /\ Cardinality(stored[1]) >= 2
    /\ stored[1] = cycleOk

\* C14: when UidStore fails the run ends there: no Expunge, no re-Select and
\* no further cycle for this mailbox, and no operation for a later mailbox.
C14_UidStoreFailureAborts ==
    "UidStore" \in failed =>
        /\ mpc = "exit1"
        /\ outcome[idx] = "fatal"
        /\ calls["UidStore"] = cycles
        /\ calls["Expunge"] = cycles - 1
        /\ calls["Select"] = cycles
        /\ calls["Fetch"] = cycles
        /\ \A j \in touched : j <= idx

C14_Witness ==
    /\ "UidStore" \in failed
    /\ Len(boxesToCopy) = 2
    /\ idx = 1
    /\ cycles = 2
    /\ Len(boxes[boxesToCopy[2]]) > 0

\* C15: the progress count never exceeds the number of successful Appends,
\* also right after an Append has failed, and total keeps the count read by
\* the first Select.
C15_ProgressAfterAppend ==
    [][/\ bar' <= Appended'
       /\ pc # "start" => total' = total]_vars

\* C16: every Fetch covers 1:min(10, count) of the latest Select, and with
\* no operation failing every cycle appends and marks exactly
\* min(10, count) messages under every interleaving.
C16_FullBatchEveryCycle ==
    /\ ppc = "fetching" => batch = Min(BatchLimit, count)
    /\ (nfail = 0 /\ stored # <<>> /\ pc \in {"expunge", "reselect"}) =>
          /\ Cardinality(stored[1]) = Min(BatchLimit, count)
          /\ Cardinality(cycleOk) = Min(BatchLimit, count)

\* C17: when every session operation succeeds and no message arrives, under
\* fair scheduling of the producer and the consumer copyMailbox eventually
\* returns success with the source mailbox reporting 0 messages.
C17_Terminates ==
    <>(pc = "ret_ok" /\ retErr = Nil /\ count = 0 /\ Len(src) = 0)

C17_Witness ==
    /\ pc = "ret_ok"
    /\ count = 0
    /\ total > BatchLimit
    /\ Appended >= BatchLimit

\* C18: copyMailbox issues UidStore, Expunge or Select on the source session
\* only when no Fetch of the producer goroutine is in progress on it.
C18_OneTaskOnSource ==
    [][(\E op \in {"UidStore", "Expunge", "Select"} : calls'[op] # calls[op])
          => ppc # "fetching"]_vars

C18_Witness ==
    /\ pc = "expunge"
    /\ ppc = "returned"
    /\ ~doneClosed
    /\ cycles = 2

\* C19: when Fetch returns an error copyMailbox returns that error and
\* issues no UidStore, Expunge or re-Select for that cycle.
C19_FetchFailureSurfaced ==
    ("Fetch" \in failed /\ "Append" \notin failed) =>
        /\ pc \in {"select", "append", "ret_err"}
        /\ pc = "ret_err" => retErr = "fetch"
        /\ stored = <<>>

\* C20: UidStore is never issued with an empty UID set.
C20_StoreNonEmpty ==
    stored # <<>> => stored[1] # {}

====
